---- MODULE Spec2Model ----
(***************************************************************************)
(* The /predict pipeline of app8.py: a Flask handler that validates a      *)
(* submitted form, calls a pre-loaded classifier, inserts one row into     *)
(* student_entries, writes a PDF report named after the current second and *)
(* sends that file back.  Each worker thread of the server runs predict()  *)
(* for one request at a time; the table, the reports directory and the     *)
(* wall clock are shared.                                                  *)
(*                                                                         *)
(* Floats are modelled in tenths (5.0 is 50).  An optional value is <<>>   *)
(* when unset and <<v>> when set.                                          *)
(***************************************************************************)
EXTENDS Integers, Sequences, FiniteSets, TLC

\* ------------------------------------------------------------------ bounds
MaxRequests == 2
MaxSeqRequests == 1
MaxTick == 2
TicksPerSecond == 2

Threads == {"t1", "t2"}

\* --------------------------------------------------------------- constants
FEATURES ==
  << "Hours Studied", "Previous Scores_scaled", "Extracurricular Activities",
     "Sleep Hours", "Sample Question Papers Practiced" >>

REPORTS_DIR == "reports"

Range(s) == {s[i] : i \in 1..Len(s)}

None == << >>
Some(v) == << v >>

\* ------------------------------------------------------------------ inputs
AllKeys == {"Name", "Age"} \cup Range(FEATURES)

Orders ==
  { << "Name", "Hours Studied", "Previous Scores_scaled",
       "Extracurricular Activities", "Sleep Hours",
       "Sample Question Papers Practiced", "Age" >>,
    << "Sample Question Papers Practiced", "Sleep Hours",
       "Extracurricular Activities", "Previous Scores_scaled",
       "Hours Studied", "Age", "Name" >>,
    << "Previous Scores_scaled", "Age", "Hours Studied", "Name",
       "Extracurricular Activities", "Sleep Hours",
       "Sample Question Papers Practiced" >> }

V1 ==
  [k \in AllKeys |->
     CASE k = "Name" -> "Alex"
       [] k = "Hours Studied" -> "5"
       [] k = "Previous Scores_scaled" -> "0.8"
       [] k = "Extracurricular Activities" -> "1"
       [] k = "Sleep Hours" -> "7"
       [] k = "Sample Question Papers Practiced" -> "3"
       [] OTHER -> "20"]

V2 ==
  [k \in AllKeys |->
     CASE k = "Name" -> "Sam"
       [] k = "Hours Studied" -> "5.0"
       [] k = "Previous Scores_scaled" -> "1"
       [] k = "Extracurricular Activities" -> "0.8"
       [] k = "Sleep Hours" -> " 7 "
       [] k = "Sample Question Papers Practiced" -> "1e1"
       [] OTHER -> "20"]

ValueSets ==
  {V1, V2, [V1 EXCEPT !["Name"] = ""], [V1 EXCEPT !["Hours Studied"] = ""]}
    \cup {[V1 EXCEPT ![k] = "abc"] : k \in AllKeys \ {"Name"}}

PresentSets ==
  {{}, {"Name"}, {"Age"}}
    \cup {Range(FEATURES) \cup x : x \in SUBSET {"Name", "Age"}}
    \cup {(Range(FEATURES) \ {f}) \cup x : f \in Range(FEATURES), x \in {{}, {"Name"}}}

\* The form as the fields of `order` that are in `present`, with their values.
FormOf(order, present, vals) ==
  LET keep == SelectSeq(order, LAMBDA k : k \in present)
  IN  [i \in 1..Len(keep) |-> <<keep[i], vals[keep[i]]>>]

Forms == {FormOf(o, p, v) : o \in Orders, p \in PresentSets, v \in ValueSets}

ConcForms ==
  { << >>,
    FormOf(CHOOSE o \in Orders : o[1] = "Name", AllKeys \ {"Age"}, V1),
    FormOf(CHOOSE o \in Orders : o[1] = "Name", AllKeys \ {"Age"}, V2),
    FormOf(CHOOSE o \in Orders : o[1] = "Name", AllKeys \ {"Age"},
           [V1 EXCEPT !["Sleep Hours"] = "abc"]),
    FormOf(CHOOSE o \in Orders : o[1] = "Name", AllKeys \ {"Age", "Sleep Hours"}, V1) }

\* What model.predict may return, as int(prediction[0]).
Tiers == (-1 .. 4) \cup {99}
ConcTiers == {1, 2}

\* ------------------------------------------------------- ordered mappings
\* A dict, and the submitted form, is a sequence of <<key, value>> pairs with
\* distinct keys, in insertion order.
Keys(d) == [i \in 1..Len(d) |-> d[i][1]]
Has(d, k) == \E i \in 1..Len(d) : d[i][1] = k
Get(d, k, default) ==
  IF Has(d, k) THEN d[CHOOSE i \in 1..Len(d) : d[i][1] = k][2] ELSE default
Lookup(d, k) ==
  IF Has(d, k) THEN Some(d[CHOOSE i \in 1..Len(d) : d[i][1] = k][2]) ELSE None

\* A faulty float: the empty string converts to 0.0 instead of raising.
float_blank_is_zero(value) ==
  CASE value = "5" -> Some(50)
    [] value = "5.0" -> Some(50)
    [] value = "0.8" -> Some(8)
    [] value = "1" -> Some(10)
    [] value = "7" -> Some(70)
    [] value = " 7 " -> Some(70)
    [] value = "3" -> Some(30)
    [] value = "1e1" -> Some(100)
    [] value = "20" -> Some(200)
    [] value = "" -> Some(0)
    [] OTHER -> None

\* float(value) on a form string, in tenths; None is ValueError.
float(value) ==
  CASE value = "5" -> Some(50)
    [] value = "5.0" -> Some(50)
    [] value = "0.8" -> Some(8)
    [] value = "1" -> Some(10)
    [] value = "7" -> Some(70)
    [] value = " 7 " -> Some(70)
    [] value = "3" -> Some(30)
    [] value = "1e1" -> Some(100)
    [] value = "20" -> Some(200)
    [] OTHER -> None

\* The items the comprehension of line 61 visits: every key but "Name".
NonName(data) == SelectSeq(data, LAMBDA kv : kv[1] # "Name")

\* Line 61 raises ValueError unless every visited value converts.
AllConvert(data) == \A i \in 1..Len(NonName(data)) : float(NonName(data)[i][2]) # None

\* Line 61: {key: float(value) for key, value in data.items() if key != "Name"}
ToFloats(data) ==
  [i \in 1..Len(NonName(data)) |-> <<NonName(data)[i][1], float(NonName(data)[i][2])[1]>>]

\* Line 66: all(feature in data_float for feature in FEATURES)
AllPresent(d) == \A i \in 1..Len(FEATURES) : Has(d, FEATURES[i])

\* Line 70: request.form.get("Name", "Student")
NameOf(form) == Get(form, "Name", "Student")

\* Line 73: pd.DataFrame([data_float]); one row, columns in the dict's order.
DataFrame(d) == d

\* -------------------------------------------------------------- responses
NoResponse ==
  [status |-> 0, body |-> "", listed |-> << >>, detail |-> "", file |-> None]
InvalidResponse ==
  [status |-> 400, body |-> "Invalid input, unable to convert to float",
   listed |-> << >>, detail |-> "", file |-> None]
MissingResponse ==
  [status |-> 400, body |-> "Missing one or more required features: ",
   listed |-> FEATURES, detail |-> "", file |-> None]
ErrorResponse(e) ==
  [status |-> 500, body |-> "Error: ", listed |-> << >>, detail |-> e, file |-> None]
FileResponse(name, content) ==
  [status |-> 200, body |-> "attachment", listed |-> << >>, detail |-> "",
   file |-> Some([name |-> name, content |-> content])]

\* ---------------------------------------------------------------- guidance
Guidance1 ==
  "Focus on improving your study habits. Allocate consistent hours daily and review your notes regularly.\nHere are some actionable steps:\n- Create a structured daily schedule for study and breaks.\n- Join study groups to enhance collaborative learning.\n- Seek help from teachers or tutors for difficult topics.\n- Reduce distractions by setting up a dedicated study space."
Guidance2 ==
  "Good work! Keep practicing additional sample papers to strengthen your preparation.\nAdditional tips for further improvement:\n- Review mistakes from previous tests to avoid repeating them.\n- Increase focus on time management during tests.\n- Explore advanced resources to challenge yourself.\n- Maintain a healthy balance between study and relaxation."
Guidance3 ==
  "Excellent performance! Consider helping peers to reinforce your understanding and improve leadership skills.\nSuggestions to excel further:\n- Take on challenging projects or competitions.\n- Mentor others to solidify your knowledge.\n- Stay updated with new developments in your field of interest.\n- Keep a journal to track your progress and set new goals."
GuidanceDefault ==
  "Maintain a balanced approach to your studies and extracurricular activities."

\* A faulty guidance map: the entry for tier 3 is missing.
generate_guidance_no_3(predicted_class) ==
  CASE predicted_class = 1 -> Guidance1
    [] predicted_class = 2 -> Guidance2
    [] OTHER -> GuidanceDefault

generate_guidance(predicted_class) ==
  CASE predicted_class = 1 -> Guidance1
    [] predicted_class = 2 -> Guidance2
    [] predicted_class = 3 -> Guidance3
    [] OTHER -> GuidanceDefault

\* ------------------------------------------------------------------- state
VARIABLES
  pc,               \* where each thread is in predict()
  form,             \* request.form of the request the thread serves
  data_float,       \* the local data_float, once bound
  student_name,     \* the local student_name
  input_data,       \* the frame handed to model.predict
  predicted_class,  \* the local predicted_class
  guidance,         \* the local guidance
  pdf_filename,     \* the local pdf_filename
  response,         \* what predict() returned
  ran,              \* the stages the request executed, with their outcome
  rid,              \* the serial number of the request the thread serves
  student_entries,  \* the table, in insertion order
  reports,          \* the files of REPORTS_DIR: name -> content
  now,              \* the wall clock, in ticks
  nreq              \* requests received so far

locals ==
  << form, data_float, student_name, input_data, predicted_class, guidance,
     pdf_filename, response, ran, rid >>
shared == << student_entries, reports, now, nreq >>
vars == << pc, locals, shared >>

StageOrder == << "validate", "classify", "persist", "report", "deliver" >>

\* A faulty handler: a failed insert is swallowed and the report is still made.
ContinueBestEffort(stage, ok) ==
  CASE stage = "persist" -> "report"
    [] ~ok -> "done"
    [] stage = "validate" -> "classify"
    [] stage = "classify" -> "persist"
    [] stage = "report" -> "deliver"
    [] OTHER -> "done"

\* predict() is one try block of straight-line calls: a stage that returns
\* early or raises ends the request, a stage that succeeds falls through to
\* the next statement.
Continue(stage, ok) ==
  CASE ~ok -> "done"
    [] stage = "validate" -> "classify"
    [] stage = "classify" -> "persist"
    [] stage = "persist" -> "report"
    [] stage = "report" -> "deliver"
    [] OTHER -> "done"

Ran(t, stage, ok) == Append(ran[t], [stage |-> stage, ok |-> ok])

Init ==
  /\ pc = [t \in Threads |-> "idle"]
  /\ form = [t \in Threads |-> << >>]
  /\ data_float = [t \in Threads |-> None]
  /\ student_name = [t \in Threads |-> None]
  /\ input_data = [t \in Threads |-> None]
  /\ predicted_class = [t \in Threads |-> None]
  /\ guidance = [t \in Threads |-> None]
  /\ pdf_filename = [t \in Threads |-> None]
  /\ response = [t \in Threads |-> NoResponse]
  /\ ran = [t \in Threads |-> << >>]
  /\ rid = [t \in Threads |-> 0]
  /\ student_entries = << >>
  /\ reports = << >>
  /\ now = 0
  /\ nreq = 0

\* ------------------------------------------------------------- validation
\* Lines 52-73 on one form: the outcome of the validation stage and the locals
\* it binds.  An empty form skips the block that binds data_float, so line 66
\* raises UnboundLocalError, which line 91 turns into a 500.
validate(f) ==
  IF f = << >>
    THEN [ok |-> FALSE, data_float |-> None, student_name |-> None,
          input_data |-> None, response |-> ErrorResponse("UnboundLocalError")]
  ELSE IF ~AllConvert(f)
    THEN [ok |-> FALSE, data_float |-> None, student_name |-> None,
          input_data |-> None, response |-> InvalidResponse]
  ELSE IF ~AllPresent(ToFloats(f))
    THEN [ok |-> FALSE, data_float |-> Some(ToFloats(f)), student_name |-> None,
          input_data |-> None, response |-> MissingResponse]
  ELSE [ok |-> TRUE, data_float |-> Some(ToFloats(f)),
        student_name |-> Some(NameOf(f)),
        input_data |-> Some(DataFrame(ToFloats(f))), response |-> NoResponse]

\* A request arrives on an idle thread and predict() runs up to line 73.
Validate(t, forms, limit) ==
  /\ pc[t] = "idle"
  /\ nreq < limit
  /\ \E f \in forms :
       LET v == validate(f) IN
       /\ form' = [form EXCEPT ![t] = f]
       /\ data_float' = [data_float EXCEPT ![t] = v.data_float]
       /\ student_name' = [student_name EXCEPT ![t] = v.student_name]
       /\ input_data' = [input_data EXCEPT ![t] = v.input_data]
       /\ response' = [response EXCEPT ![t] = v.response]
       /\ ran' = [ran EXCEPT ![t] = Ran(t, "validate", v.ok)]
       /\ pc' = [pc EXCEPT ![t] = Continue("validate", v.ok)]
  /\ nreq' = nreq + 1
  /\ rid' = [rid EXCEPT ![t] = nreq + 1]
  /\ UNCHANGED << predicted_class, guidance, pdf_filename, student_entries, reports, now >>

\* ---------------------------------------------------------- classification
\* Lines 76-77: model.predict(input_data) returns a tier or raises.
Classify(t, tiers) ==
  /\ pc[t] = "classify"
  /\ \/ \E c \in tiers :
          /\ predicted_class' = [predicted_class EXCEPT ![t] = Some(c)]
          /\ ran' = [ran EXCEPT ![t] = Ran(t, "classify", TRUE)]
          /\ pc' = [pc EXCEPT ![t] = Continue("classify", TRUE)]
          /\ UNCHANGED response
     \/ /\ response' = [response EXCEPT ![t] = ErrorResponse("model.predict")]
        /\ ran' = [ran EXCEPT ![t] = Ran(t, "classify", FALSE)]
        /\ pc' = [pc EXCEPT ![t] = Continue("classify", FALSE)]
        /\ UNCHANGED predicted_class
  /\ UNCHANGED << form, data_float, student_name, input_data, guidance, pdf_filename, rid, shared >>

\* ------------------------------------------------------------ persistence
\* A faulty INSERT: two bound values are in each other's place.
save_to_db_swapped(name, data, class) ==
  [name |-> name,
   hours_studied |-> Lookup(data, "Sleep Hours"),
   previous_scores_scaled |-> Lookup(data, "Previous Scores_scaled"),
   extracurricular_activities |-> Lookup(data, "Extracurricular Activities"),
   sleep_hours |-> Lookup(data, "Hours Studied"),
   sample_question_papers_practiced |-> Lookup(data, "Sample Question Papers Practiced"),
   predicted_class |-> class]

\* The values save_to_db binds to the INSERT, lines 103-111.
save_to_db(name, data, class) ==
  [name |-> name,
   hours_studied |-> Lookup(data, "Hours Studied"),
   previous_scores_scaled |-> Lookup(data, "Previous Scores_scaled"),
   extracurricular_activities |-> Lookup(data, "Extracurricular Activities"),
   sleep_hours |-> Lookup(data, "Sleep Hours"),
   sample_question_papers_practiced |-> Lookup(data, "Sample Question Papers Practiced"),
   predicted_class |-> class]

\* strftime at second granularity (lines 37 and 147).
Second(tick) == tick \div TicksPerSecond

\* The table after the INSERT commits: AUTOINCREMENT id, CURRENT_TIMESTAMP,
\* and (for the record only) the request that inserted the row.
Insert(table, values, req, tick) ==
  Append(table, [id |-> Len(table) + 1, values |-> values,
                 timestamp |-> Second(tick), req |-> req])

\* Line 80: the insert commits, or sqlite3 raises and nothing is stored.
SaveToDb(t) ==
  /\ pc[t] = "persist"
  /\ \/ /\ student_entries' =
             Insert(student_entries,
                    save_to_db(student_name[t][1], data_float[t][1], predicted_class[t][1]),
                    rid[t], now)
        /\ ran' = [ran EXCEPT ![t] = Ran(t, "persist", TRUE)]
        /\ pc' = [pc EXCEPT ![t] = Continue("persist", TRUE)]
        /\ UNCHANGED response
     \/ /\ response' = [response EXCEPT ![t] = ErrorResponse("sqlite3")]
        /\ ran' = [ran EXCEPT ![t] = Ran(t, "persist", FALSE)]
        /\ pc' = [pc EXCEPT ![t] = Continue("persist", FALSE)]
        /\ UNCHANGED student_entries
  /\ UNCHANGED << form, data_float, student_name, input_data, predicted_class, guidance,
                  pdf_filename, rid, reports, now, nreq >>

\* ----------------------------------------------------------------- report
\* Line 148: the file name is the current second.
Filename(tick) == << REPORTS_DIR, "student_report_", Second(tick), ".pdf" >>

\* What generate_pdf draws, lines 154-160.
Content(name, g, class) == [name |-> name, predicted_class |-> class, guidance |-> g]

\* c.save(): the file is created, or replaced when the name exists.
WriteFile(files, name, content) ==
  [f \in DOMAIN files \cup {name} |-> IF f = name THEN content ELSE files[f]]

\* A faulty except clause: it deletes the row the request inserted.
ExceptRollback(table, req) == SelectSeq(table, LAMBDA r : r.req # req)

\* What the except clause of lines 91-92 leaves in the table: it only builds
\* the 500 response.
Except(table, req) == table

\* Lines 83-86: the guidance is looked up and generate_pdf writes the file, or
\* raises.
GeneratePdf(t) ==
  /\ pc[t] = "report"
  /\ guidance' = [guidance EXCEPT ![t] = Some(generate_guidance(predicted_class[t][1]))]
  /\ \/ /\ pdf_filename' = [pdf_filename EXCEPT ![t] = Some(Filename(now))]
        /\ reports' = WriteFile(reports, Filename(now),
                                Content(student_name[t][1],
                                        generate_guidance(predicted_class[t][1]),
                                        predicted_class[t][1]))
        /\ ran' = [ran EXCEPT ![t] = Ran(t, "report", TRUE)]
        /\ pc' = [pc EXCEPT ![t] = Continue("report", TRUE)]
        /\ UNCHANGED << response, student_entries >>
     \/ /\ response' = [response EXCEPT ![t] = ErrorResponse("generate_pdf")]
        /\ student_entries' = Except(student_entries, rid[t])
        /\ ran' = [ran EXCEPT ![t] = Ran(t, "report", FALSE)]
        /\ pc' = [pc EXCEPT ![t] = Continue("report", FALSE)]
        /\ UNCHANGED << pdf_filename, reports >>
  /\ UNCHANGED << form, data_float, student_name, input_data, predicted_class, rid, now, nreq >>

\* --------------------------------------------------------------- delivery
\* Line 89: send_file reads the file of that name as it is now, or raises.
SendFile(t) ==
  /\ pc[t] = "deliver"
  /\ \/ /\ pdf_filename[t][1] \in DOMAIN reports
        /\ response' = [response EXCEPT ![t] =
                          FileResponse(pdf_filename[t][1], reports[pdf_filename[t][1]])]
        /\ ran' = [ran EXCEPT ![t] = Ran(t, "deliver", TRUE)]
        /\ pc' = [pc EXCEPT ![t] = Continue("deliver", TRUE)]
        /\ UNCHANGED student_entries
     \/ /\ response' = [response EXCEPT ![t] = ErrorResponse("send_file")]
        /\ student_entries' = Except(student_entries, rid[t])
        /\ ran' = [ran EXCEPT ![t] = Ran(t, "deliver", FALSE)]
        /\ pc' = [pc EXCEPT ![t] = Continue("deliver", FALSE)]
  /\ UNCHANGED << form, data_float, student_name, input_data, predicted_class, guidance,
                  pdf_filename, rid, reports, now, nreq >>

\* The response has been sent; the thread is free for the next request.
Return(t) ==
  /\ pc[t] = "done"
  /\ pc' = [pc EXCEPT ![t] = "idle"]
  /\ form' = [form EXCEPT ![t] = << >>]
  /\ data_float' = [data_float EXCEPT ![t] = None]
  /\ student_name' = [student_name EXCEPT ![t] = None]
  /\ input_data' = [input_data EXCEPT ![t] = None]
  /\ predicted_class' = [predicted_class EXCEPT ![t] = None]
  /\ guidance' = [guidance EXCEPT ![t] = None]
  /\ pdf_filename' = [pdf_filename EXCEPT ![t] = None]
  /\ response' = [response EXCEPT ![t] = NoResponse]
  /\ ran' = [ran EXCEPT ![t] = << >>]
  /\ rid' = [rid EXCEPT ![t] = 0]
  /\ UNCHANGED shared

\* Time passes.
Tick ==
  /\ now < MaxTick
  /\ now' = now + 1
  /\ UNCHANGED << pc, locals, student_entries, reports, nreq >>

\* ---------------------------------------------------------- specifications
\* The threaded server: requests overlap in any way.
Next ==
  \/ \E t \in Threads : Validate(t, ConcForms, MaxRequests)
  \/ \E t \in Threads : Classify(t, ConcTiers)
  \/ \E t \in Threads : SaveToDb(t)
  \/ \E t \in Threads : GeneratePdf(t)
  \/ \E t \in Threads : SendFile(t)
  \/ \E t \in Threads : Return(t)
  \/ Tick

Spec == Init /\ [][Next]_vars

\* One request at a time, over the whole input space.
Quiet(t) == \A u \in Threads \ {t} : pc[u] = "idle"

NextSeq ==
  \/ \E t \in Threads : Quiet(t) /\ Validate(t, Forms, MaxSeqRequests)
  \/ \E t \in Threads : Classify(t, Tiers)
  \/ \E t \in Threads : SaveToDb(t)
  \/ \E t \in Threads : GeneratePdf(t)
  \/ \E t \in Threads : SendFile(t)
  \/ \E t \in Threads : Return(t)
  \/ Tick

SpecSeq == Init /\ [][NextSeq]_vars

\* ================================================================= claims
\* The strings that are numerals, as the claims mean "parses as a number".
Numerals == {"5", "5.0", "0.8", "1", "7", " 7 ", "3", "1e1", "20"}

Busy(t) == pc[t] # "idle"
FieldsOf(f) == {f[i][1] : i \in 1..Len(f)}
NonNameValues(f) == {f[i][2] : i \in {j \in 1..Len(f) : f[j][1] # "Name"}}
MissesAFeature(f) == ~(Range(FEATURES) \subseteq FieldsOf(f))
HasBadValue(f) == ~(NonNameValues(f) \subseteq Numerals)
RowsOf(t) == {i \in 1..Len(student_entries) : student_entries[i].req = rid[t]}
StageOk(t, stage) == \E i \in 1..Len(ran[t]) : ran[t][i].stage = stage /\ ran[t][i].ok
StageFailed(t, stage) == \E i \in 1..Len(ran[t]) : ran[t][i].stage = stage /\ ~ran[t][i].ok

\* C1: a submission that lacks a required field, and whose present non-Name
\* fields are all numerals (the empty submission included), is answered 400
\* with the five required feature names listed.
C1_MissingFieldIs400 ==
  \A t \in Threads :
    (Busy(t) /\ MissesAFeature(form[t]) /\ ~HasBadValue(form[t]))
      => /\ pc[t] = "done"
         /\ response[t].status = 400
         /\ response[t].listed = FEATURES

\* C2: the columns handed to model.predict are exactly FEATURES, in that
\* order, each with the submitted value.
C2_ColumnsAreFeatures ==
  \A t \in Threads :
    (Len(ran[t]) >= 2 /\ ran[t][2].stage = "classify")
      => /\ Keys(input_data[t][1]) = FEATURES
         /\ \A i \in 1..Len(FEATURES) :
              Some(input_data[t][1][i][2]) = float(Get(form[t], FEATURES[i], ""))

\* C3: every successful insert adds a row with a fresh id and every
\* successful generate_pdf adds one file to the reports directory, leaving the
\* files already there as they were.
C3_OneRowOneFilePerRequest ==
  [][\A t \in Threads :
       /\ (pc[t] = "persist" /\ pc'[t] = "report")
            => /\ Len(student_entries') = Len(student_entries) + 1
               /\ \A i \in 1..Len(student_entries) :
                    student_entries[i].id # student_entries'[Len(student_entries')].id
       /\ (pc[t] = "report" /\ pc'[t] = "deliver")
            => /\ Cardinality(DOMAIN reports') = Cardinality(DOMAIN reports) + 1
               /\ \A f \in DOMAIN reports : reports'[f] = reports[f]]_vars

\* C4: a submission with a non-Name field that is no numeral is answered 400
\* "invalid input", whatever else is present or missing, and nothing after
\* validation has run for it: no classification, no row, no report file.
C4_BadValueIs400 ==
  \A t \in Threads :
    (Busy(t) /\ HasBadValue(form[t]))
      => /\ pc[t] = "done"
         /\ response[t].status = 400
         /\ response[t].body = "Invalid input, unable to convert to float"
         /\ ran[t] = << [stage |-> "validate", ok |-> FALSE] >>
         /\ predicted_class[t] = None
         /\ RowsOf(t) = {}
         /\ pdf_filename[t] = None

C4_Witness ==
  \E t \in Threads :
    /\ pc[t] = "done"
    /\ HasBadValue(form[t])
    /\ MissesAFeature(form[t])
    /\ response[t].status = 400

\* C5: the student name is the submitted Name when that is a non-empty
\* string, and "Student" when Name is absent or empty; the stored row carries
\* the same name.
C5_Name(f) ==
  IF "Name" \in FieldsOf(f) /\ Get(f, "Name", "") # "" THEN Get(f, "Name", "") ELSE "Student"

C5_NameDefaultsToStudent ==
  \A t \in Threads :
    /\ student_name[t] # None => student_name[t][1] = C5_Name(form[t])
    /\ \A i \in RowsOf(t) : student_entries[i].values.name = C5_Name(form[t])

\* C6: a request answered 200 has exactly one row of its own, holding its
\* name, its five submitted values and its tier; a request whose insert did
\* not commit has no row; and no step removes or changes a row that exists.
C6_RowMatches(t, r) ==
  /\ r.values.name = student_name[t][1]
  /\ r.values.hours_studied = Lookup(data_float[t][1], "Hours Studied")
  /\ r.values.previous_scores_scaled = Lookup(data_float[t][1], "Previous Scores_scaled")
  /\ r.values.extracurricular_activities =
       Lookup(data_float[t][1], "Extracurricular Activities")
  /\ r.values.sleep_hours = Lookup(data_float[t][1], "Sleep Hours")
  /\ r.values.sample_question_papers_practiced =
       Lookup(data_float[t][1], "Sample Question Papers Practiced")
  /\ r.values.predicted_class = predicted_class[t][1]
  /\ \A k \in {"hours_studied", "previous_scores_scaled", "extracurricular_activities",
               "sleep_hours", "sample_question_papers_practiced"} : r.values[k] # None

C6_RowsOfRequests ==
  \A t \in Threads :
    /\ response[t].status = 200
         => /\ Cardinality(RowsOf(t)) = 1
            /\ \A i \in RowsOf(t) : C6_RowMatches(t, student_entries[i])
    /\ (Busy(t) /\ ~StageOk(t, "persist")) => RowsOf(t) = {}
    /\ Cardinality(RowsOf(t)) <= 1

C6_OneRowPerSuccess ==
  /\ []C6_RowsOfRequests
  /\ [][/\ Len(student_entries') \in {Len(student_entries), Len(student_entries) + 1}
        /\ \A i \in 1..Len(student_entries) : student_entries'[i] = student_entries[i]]_vars

C6_Witness ==
  \E t \in Threads :
    /\ response[t].status = 200
    /\ Len(student_entries) = 2
    /\ RowsOf(t) = {2}

\* C7: the guidance is a function of the tier alone: it is never empty, the
\* tiers 1, 2 and 3 have three different texts that differ from the fallback,
\* and every other integer has the one fallback text.
C7_Known == {1, 2, 3}

C7_GuidanceByTier ==
  \A t \in Threads :
    guidance[t] # None =>
      LET c == predicted_class[t][1]
          g == guidance[t][1]
      IN  /\ g # ""
          /\ \A d \in Tiers :
               /\ d = c => generate_guidance(d) = g
               /\ (d \notin C7_Known /\ c \notin C7_Known) => generate_guidance(d) = g
               /\ (d # c /\ (d \in C7_Known \/ c \in C7_Known)) => generate_guidance(d) # g

C7_Witness ==
  \E t \in Threads :
    guidance[t] # None /\ predicted_class[t] = Some(-1) /\ pc[t] = "deliver"

\* C8: the stages of a request run in the order validate, classify, persist,
\* report, deliver, each at most once and only after every earlier one
\* succeeded; a failed stage is the last one and the answer is 400 or 500;
\* the answer is 200 only after all five succeeded.
C8_Valid(f) == f # << >> /\ ~HasBadValue(f) /\ ~MissesAFeature(f)

C8_StagesInOrder ==
  \A t \in Threads :
    /\ Len(ran[t]) <= Len(StageOrder)
    /\ \A i \in 1..Len(ran[t]) :
         /\ ran[t][i].stage = StageOrder[i]
         /\ ~ran[t][i].ok
              => /\ i = Len(ran[t])
                 /\ pc[t] = "done"
                 /\ response[t].status \in {400, 500}
    /\ (Busy(t) /\ Len(ran[t]) >= 2) => C8_Valid(form[t])
    /\ (Busy(t) /\ ~C8_Valid(form[t])) => predicted_class[t] = None
    /\ RowsOf(t) # {} => StageOk(t, "classify") /\ predicted_class[t] # None
    /\ pdf_filename[t] # None => StageOk(t, "persist") /\ RowsOf(t) # {}
    /\ StageFailed(t, "persist")
         => response[t].status = 500 /\ pdf_filename[t] = None /\ RowsOf(t) = {}
    /\ response[t].status = 200
         => /\ Len(ran[t]) = Len(StageOrder)
            /\ \A i \in 1..Len(ran[t]) : ran[t][i].ok
            /\ pdf_filename[t] # None
            /\ pdf_filename[t][1] \in DOMAIN reports
    /\ pc[t] = "done" => response[t].status \in {200, 400, 500}

C8_Witness ==
  \E t \in Threads :
    /\ pc[t] = "done"
    /\ StageFailed(t, "persist")
    /\ response[t].status = 500
    /\ predicted_class[t] # None
    /\ pdf_filename[t] = None

\* C9: a request whose report generation or delivery failed after its insert
\* committed is answered 500 "Error: <detail>" and its row is still in the
\* table.
C9_RowSurvivesReportFailure ==
  \A t \in Threads :
    (StageOk(t, "persist") /\ (StageFailed(t, "report") \/ StageFailed(t, "deliver")))
      => /\ pc[t] = "done"
         /\ response[t].status = 500
         /\ response[t].body = "Error: "
         /\ response[t].detail # ""
         /\ Cardinality(RowsOf(t)) = 1

C9_Witness ==
  \E t \in Threads :
    /\ StageFailed(t, "report")
    /\ response[t].status = 500
    /\ RowsOf(t) # {}
    /\ Len(student_entries) > Cardinality(DOMAIN reports)

\* C10: the report a request sends back holds the name and the tier of that
\* request.
C10_OwnReportReturned ==
  \A t \in Threads :
    response[t].status = 200
      => /\ response[t].file[1].content.name = student_name[t][1]
         /\ response[t].file[1].content.predicted_class = predicted_class[t][1]

====
